---- MODULE Spec2Model ----
(***************************************************************************)
(* A model of rssagg-discord (src/main.go): the FeedStore registry, the    *)
(* messageCreate command handler, fetchRSS, postToDiscord and the cron job *)
(* registered by schedulePeriodicUpdates.                                  *)
(*                                                                         *)
(* Text is modelled as a sequence of one-character strings, so that        *)
(* time.ParseDuration, strings.Join and string concatenation are computed  *)
(* rather than assumed.  A message sent to a channel is a sequence of      *)
(* lines, each line a sequence of characters (a fixed text of the program  *)
(* is one "character").  Durations are counted in whole seconds.           *)
(***************************************************************************)
EXTENDS Integers, Sequences, FiniteSets, TLC

VARIABLES feedURLs, timeout, mu, hd, sched, tk, crashed

vars == <<feedURLs, timeout, mu, hd, sched, tk, crashed>>

(***************************************************************************)
(* Bounds and input sets                                                   *)
(***************************************************************************)
\* longest list a channel may reach (add commands are not started beyond it)
MaxLen == 4
\* how many times the cron's timer fires
MaxTicks == 2

Channels == {"c1", "c2"}
Handlers == {"h1", "h2"}
\* the goroutines cron starts for the job, one for each firing of the timer
Ticks == 1..MaxTicks
None == "none"

A == <<"a">>
B == <<"b">>
URLs == {A, B}

\* what a feed's parsed item list can be; X and Y are items
Items == {"X", "Y"}
FeedItems == {<<>>, <<"X">>, <<"Y", "X">>}

\* duration strings a user sends with update_timeout
DurationInputs ==
  { <<"1", "0", "m">>, <<"1", "h">>, <<"n", "o", "t">>, <<"1", "0">>, <<"0">> }

NoArg == <<>>

\* strings.Fields(m.Content) of the messages the handler is given:
\* args[0] is the prefix, verb is args[1] (None when absent), arg is args[2]
\* (NoArg when absent).
Messages ==
     [verb : {None}, arg : {NoArg}]
  \cup [verb : {"add", "remove", "list"}, arg : URLs \cup {NoArg}]
  \cup [verb : {"update_timeout"}, arg : DurationInputs \cup {NoArg}]
  \cup [verb : {"bogus"}, arg : {NoArg, A}]

NArgs(m) == 1 + (IF m.verb = None THEN 0 ELSE 1) + (IF m.arg = NoArg THEN 0 ELSE 1)

(***************************************************************************)
(* FeedStore: the registry's pure parts                                    *)
(***************************************************************************)
DefaultTimeout == 1800

\* fs.feedURLs[channelID]: a missing key reads as the nil (empty) slice
Lookup(m, c) == IF c \in DOMAIN m THEN m[c] ELSE <<>>

\* fs.feedURLs[channelID] = v
Store(m, c, v) == [x \in (DOMAIN m) \cup {c} |-> IF x = c THEN v ELSE m[x]]

\* slices.Contains
Contains(s, e) == \E i \in 1..Len(s) : s[i] = e

\* the range loop of RemoveFeed
RECURSIVE Filter(_, _)
Filter(s, u) ==
  IF s = <<>> THEN <<>>
  ELSE IF Head(s) # u THEN <<Head(s)>> \o Filter(Tail(s), u)
       ELSE Filter(Tail(s), u)

\* AddFeed putting feedURL in front
AddFeedMutPrepend(m, c, u) == Store(m, c, <<u>> \o Lookup(m, c))

AddFeedResult(m, c, u) == Store(m, c, Append(Lookup(m, c), u))

\* RemoveFeed keeping the entries equal to feedURL (== for !=)
RemoveFeedMutKeepEqual(m, c, u) ==
  Store(m, c, SelectSeq(Lookup(m, c), LAMBDA x : x = u))

\* RemoveFeed deleting the key of a channel it leaves without URLs
RemoveFeedMutDeleteEmpty(m, c, u) ==
  IF Filter(Lookup(m, c), u) = <<>>
    THEN [x \in (DOMAIN m) \ {c} |-> m[x]]
    ELSE Store(m, c, Filter(Lookup(m, c), u))

RemoveFeedResult(m, c, u) == Store(m, c, Filter(Lookup(m, c), u))

FeedExists(m, c, u) == Contains(Lookup(m, c), u)

\* ListFeed: the lines of the returned text (strings.Join with "\n")
ListFeed(m, c) ==
  IF Len(Lookup(m, c)) = 0
    THEN << <<"No RSS feeds subscribed.">> >>
    ELSE << <<"Subscribed feeds:">> >> \o Lookup(m, c)

(***************************************************************************)
(* time.ParseDuration on the model's alphabet: [-+]?([0-9]+[a-z]+)+ with   *)
(* the special case "0"; the result is [ok, d] with d in seconds.          *)
(***************************************************************************)
Digits == {"0", "1"}
DigitVal(ch) == IF ch = "1" THEN 1 ELSE 0
UnitMap == [u \in {<<"s">>, <<"m">>, <<"h">>} |->
              IF u = <<"s">> THEN 1 ELSE IF u = <<"m">> THEN 60 ELSE 3600]
ParseError == [ok |-> FALSE, d |-> 0]

\* the number of leading characters of s that are (isDigit = TRUE) or are not digits
RECURSIVE Run(_, _)
Run(s, isDigit) ==
  IF s # <<>> /\ ((Head(s) \in Digits) = isDigit) THEN 1 + Run(Tail(s), isDigit) ELSE 0

RECURSIVE LeadingInt(_, _)
LeadingInt(s, acc) ==
  IF s = <<>> THEN acc ELSE LeadingInt(Tail(s), 10 * acc + DigitVal(Head(s)))

RECURSIVE ParseTerms(_, _)
ParseTerms(s, d) ==
  IF s = <<>> THEN [ok |-> TRUE, d |-> d]
  ELSE LET nd == Run(s, TRUE)
           rest == SubSeq(s, nd + 1, Len(s))
           nu == Run(rest, FALSE)
           u == SubSeq(rest, 1, nu)
       IN  IF nd = 0 THEN ParseError          \* invalid duration
           ELSE IF nu = 0 THEN ParseError     \* missing unit
           ELSE IF u \notin DOMAIN UnitMap THEN ParseError   \* unknown unit
           ELSE ParseTerms(SubSeq(rest, nu + 1, Len(rest)),
                           d + LeadingInt(SubSeq(s, 1, nd), 0) * UnitMap[u])

ParseDuration(s) ==
  LET signed == s # <<>> /\ Head(s) \in {"-", "+"}
      neg == signed /\ Head(s) = "-"
      t == IF signed THEN Tail(s) ELSE s
  IN  IF t = <<"0">> THEN [ok |-> TRUE, d |-> 0]
      ELSE IF t = <<>> THEN ParseError
      ELSE LET r == ParseTerms(t, 0)
           IN  IF r.ok /\ neg THEN [ok |-> TRUE, d |-> 0 - r.d] ELSE r

\* UpdateTimeout assigning the parsed value before the error check
UpdateTimeoutMutAssignFirst(t, s) ==
  [err |-> ~ParseDuration(s).ok, timeout |-> ParseDuration(s).d]

\* UpdateTimeout's effect: the error it returns and the timeout it leaves
UpdateTimeoutResult(t, s) ==
  LET r == ParseDuration(s)
  IN  IF ~r.ok THEN [err |-> TRUE, timeout |-> t]
      ELSE [err |-> FALSE, timeout |-> r.d]

(***************************************************************************)
(* State                                                                   *)
(*   feedURLs  feedStore.feedURLs, a function from the keys present        *)
(*   timeout   feedStore.timeout                                           *)
(*   mu        feedStore.mu: the goroutine holding Lock, those holding     *)
(*             RLock                                                       *)
(*   hd        one messageCreate invocation per handler goroutine          *)
(*   sched     schedulePeriodicUpdates: whether the cron has been started  *)
(*             and the period it was given                                 *)
(*   tk        the goroutines running the cron job, one for each firing    *)
(*   crashed   the process has died (a panic or a runtime fatal error)     *)
(***************************************************************************)
IdleHd == [pc |-> "idle", ch |-> None, verb |-> None, arg |-> NoArg,
           local |-> <<>>, reply |-> <<>>]

IdleTk == [pc |-> "idle", channels |-> <<>>, i |-> 0, feedUrlList |-> <<>>,
           j |-> 0, fetched |-> <<>>, item |-> None, log |-> <<>>,
           posts |-> <<>>]

Init ==
  /\ feedURLs = <<>>
  /\ timeout = DefaultTimeout
  /\ mu = [writer |-> None, readers |-> {}]
  /\ hd = [h \in Handlers |-> IdleHd]
  /\ sched = [pc |-> "init", period |-> 0]
  /\ tk = [t \in Ticks |-> IdleTk]
  /\ crashed = FALSE

\* a one-line message
Line(text) == << <<text>> >>

\* handlers that have passed add's duplicate check and still owe appends to c
Adding(c) ==
  {h \in Handlers : hd[h].ch = c /\ hd[h].verb = "add"
                    /\ hd[h].pc \in {"add_check", "add1_lock", "add1_write",
                                     "add_send", "add2_lock", "add2_write"}}

(***************************************************************************)
(* messageCreate                                                           *)
(***************************************************************************)
\* the argument check left out
MissingArgMutNoCheck(m) == FALSE

\* lines 200, 232 and 280: len(args) < 3
MissingArg(m) == NArgs(m) < 3

\* an unknown verb answered with the usage text
UnrecognizedMutUsage(start) ==
  [start EXCEPT !.pc = "done",
                !.reply = Line("Usage: /rss <add|remove|list|update_timeout> [url|duration]")]

\* lines 198-309: the switch has no default case, so a verb that matches no
\* case falls through to the end of messageCreate
Unrecognized(start) == [start EXCEPT !.pc = "done"]

\* lines 173-206, 231-238, 262-267, 279-286: a message that passes the bot
\* and prefix checks is split into fields and dispatched on its verb
Receive(h, c, m) ==
  /\ ~crashed
  /\ hd[h].pc = "idle"
  /\ m.verb = "add" /\ m.arg # NoArg
       => Len(Lookup(feedURLs, c)) + 2 * Cardinality(Adding(c)) + 2 <= MaxLen
  /\ LET start == [IdleHd EXCEPT !.ch = c, !.verb = m.verb, !.arg = m.arg]
         usage(text) == [start EXCEPT !.pc = "done", !.reply = Line(text)]
     IN  IF NArgs(m) < 2
           THEN /\ hd' = [hd EXCEPT ![h] =
                     usage("Usage: /rss <add|remove|list|update_timeout> [url|duration]")]
                /\ UNCHANGED crashed
         ELSE IF m.verb = "add"
           THEN /\ hd' = [hd EXCEPT ![h] =
                     IF MissingArg(m) THEN usage("Please provide a feed URL to add")
                     ELSE [start EXCEPT !.pc = "add_check"]]
                /\ UNCHANGED crashed
         ELSE IF m.verb = "remove"
           THEN /\ hd' = [hd EXCEPT ![h] =
                     IF MissingArg(m) THEN usage("Please provide a feed URL to remove")
                     ELSE [start EXCEPT !.pc = "remove_check"]]
                /\ UNCHANGED crashed
         ELSE IF m.verb = "list"
           THEN \* line 266 evaluates args[2]: index out of range when absent
                IF NArgs(m) < 3
                  THEN /\ hd' = [hd EXCEPT ![h] = [start EXCEPT !.pc = "panic"]]
                       /\ crashed' = TRUE
                  ELSE /\ hd' = [hd EXCEPT ![h] = [start EXCEPT !.pc = "list_read"]]
                       /\ UNCHANGED crashed
         ELSE IF m.verb = "update_timeout"
           THEN /\ hd' = [hd EXCEPT ![h] =
                     IF MissingArg(m) THEN usage("Usage: /rss update_timeout <10m|1h|etc>")
                     ELSE [start EXCEPT !.pc = "ut_lock"]]
                /\ UNCHANGED crashed
         ELSE /\ hd' = [hd EXCEPT ![h] = Unrecognized(start)]
              /\ UNCHANGED crashed
  /\ UNCHANGED <<feedURLs, timeout, mu, sched, tk>>

\* lines 207-213 and 239-245: FeedExists under RLock, then the guard on it
ExistsCheck(h) ==
  /\ ~crashed
  /\ hd[h].pc \in {"add_check", "remove_check"}
  /\ mu.writer = None
  /\ hd' = [hd EXCEPT ![h] =
       IF FeedExists(feedURLs, hd[h].ch, hd[h].arg)
         THEN [@ EXCEPT !.pc = "done", !.reply = Line("URL already exists.")]
         ELSE [@ EXCEPT !.pc = IF hd[h].pc = "add_check" THEN "add1_lock"
                               ELSE "remove_lock"]]
  /\ UNCHANGED <<feedURLs, timeout, mu, sched, tk, crashed>>

\* fs.mu.Lock() at lines 30, 38 and 61
LockPc == [p \in {"add1_lock", "add2_lock", "remove_lock", "ut_lock"} |->
             IF p = "add1_lock" THEN "add1_write"
             ELSE IF p = "add2_lock" THEN "add2_write"
             ELSE IF p = "remove_lock" THEN "remove_write" ELSE "ut_write"]

Lock(h) ==
  /\ ~crashed
  /\ hd[h].pc \in DOMAIN LockPc
  /\ mu.writer = None /\ mu.readers = {}
  /\ mu' = [mu EXCEPT !.writer = h]
  /\ hd' = [hd EXCEPT ![h].pc = LockPc[hd[h].pc]]
  /\ UNCHANGED <<feedURLs, timeout, sched, tk, crashed>>

\* AddFeed's body and deferred Unlock, called at line 219 and again at 229
AddWrite(h) ==
  /\ ~crashed
  /\ hd[h].pc \in {"add1_write", "add2_write"}
  /\ feedURLs' = AddFeedResult(feedURLs, hd[h].ch, hd[h].arg)
  /\ mu' = [mu EXCEPT !.writer = None]
  /\ hd' = [hd EXCEPT ![h].pc = IF hd[h].pc = "add1_write" THEN "add_send" ELSE "done"]
  /\ UNCHANGED <<timeout, sched, tk, crashed>>

\* line 220
AddSend(h) ==
  /\ ~crashed
  /\ hd[h].pc = "add_send"
  /\ hd' = [hd EXCEPT ![h].pc = "add2_lock", ![h].reply = Line("Feed added.")]
  /\ UNCHANGED <<feedURLs, timeout, mu, sched, tk, crashed>>

\* RemoveFeed's body and deferred Unlock, called at line 251
RemoveWrite(h) ==
  /\ ~crashed
  /\ hd[h].pc = "remove_write"
  /\ feedURLs' = RemoveFeedResult(feedURLs, hd[h].ch, hd[h].arg)
  /\ mu' = [mu EXCEPT !.writer = None]
  /\ hd' = [hd EXCEPT ![h].pc = "remove_send"]
  /\ UNCHANGED <<timeout, sched, tk, crashed>>

\* line 252
RemoveSend(h) ==
  /\ ~crashed
  /\ hd[h].pc = "remove_send"
  /\ hd' = [hd EXCEPT ![h].pc = "done", ![h].reply = Line("Feed removed.")]
  /\ UNCHANGED <<feedURLs, timeout, mu, sched, tk, crashed>>

\* line 268: ListFeed under RLock
ListRead(h) ==
  /\ ~crashed
  /\ hd[h].pc = "list_read"
  /\ mu.writer = None
  /\ hd' = [hd EXCEPT ![h].pc = "list_send", ![h].local = ListFeed(feedURLs, hd[h].ch)]
  /\ UNCHANGED <<feedURLs, timeout, mu, sched, tk, crashed>>

\* line 269
ListSend(h) ==
  /\ ~crashed
  /\ hd[h].pc = "list_send"
  /\ hd' = [hd EXCEPT ![h].pc = "done", ![h].reply = hd[h].local, ![h].local = <<>>]
  /\ UNCHANGED <<feedURLs, timeout, mu, sched, tk, crashed>>

\* cron's "@every d": a period below one second is raised to one second
EveryPeriod(d) == IF d < 1 THEN 1 ELSE d

\* UpdateTimeout giving the new duration to the running cron as well
UtWriteMutLive(h) ==
  /\ ~crashed
  /\ hd[h].pc = "ut_write"
  /\ LET r == UpdateTimeoutResult(timeout, hd[h].arg)
     IN  /\ timeout' = r.timeout
         /\ sched' = IF sched.pc = "running" THEN [sched EXCEPT !.period = EveryPeriod(r.timeout)]
                     ELSE sched
         /\ hd' = [hd EXCEPT ![h].pc = "ut_send",
                             ![h].local = IF r.err THEN <<"err">> ELSE <<>>]
  /\ mu' = [mu EXCEPT !.writer = None]
  /\ UNCHANGED <<feedURLs, tk, crashed>>

\* UpdateTimeout's body and deferred Unlock, called at line 292
UtWrite(h) ==
  /\ ~crashed
  /\ hd[h].pc = "ut_write"
  /\ LET r == UpdateTimeoutResult(timeout, hd[h].arg)
     IN  /\ timeout' = r.timeout
         /\ hd' = [hd EXCEPT ![h].pc = "ut_send",
                             ![h].local = IF r.err THEN <<"err">> ELSE <<>>]
  /\ mu' = [mu EXCEPT !.writer = None]
  /\ UNCHANGED <<feedURLs, sched, tk, crashed>>

\* lines 293-308
UtSend(h) ==
  /\ ~crashed
  /\ hd[h].pc = "ut_send"
  /\ hd' = [hd EXCEPT ![h].pc = "done", ![h].local = <<>>,
                      ![h].reply =
                        IF hd[h].local = <<"err">>
                          THEN << <<"Invalid timeout format: ">> >>
                          ELSE << <<"Timeout updated to ">> \o hd[h].arg >>]
  /\ UNCHANGED <<feedURLs, timeout, mu, sched, tk, crashed>>

\* messageCreate returns
Return(h) ==
  /\ ~crashed
  /\ hd[h].pc = "done"
  /\ hd' = [hd EXCEPT ![h] = IdleHd]
  /\ UNCHANGED <<feedURLs, timeout, mu, sched, tk, crashed>>

(***************************************************************************)
(* Reads made without the lock.  A goroutine inside AddFeed or RemoveFeed  *)
(* holds the lock and is writing the map; a read of the map at that moment *)
(* is a data race: it sees the value before or after the write, or the Go  *)
(* runtime stops the process (concurrent map read and map write).  A racing*)
(* read of the timeout sees the value before or after the write.           *)
(***************************************************************************)
MapWriters == {h \in Handlers : hd[h].pc \in {"add1_write", "add2_write", "remove_write"}}

TimeoutWriters == {h \in Handlers : hd[h].pc = "ut_write"}

WrittenMap(h) ==
  IF hd[h].pc = "remove_write" THEN RemoveFeedResult(feedURLs, hd[h].ch, hd[h].arg)
  ELSE AddFeedResult(feedURLs, hd[h].ch, hd[h].arg)

UnlockedListReads(c) ==
  {Lookup(feedURLs, c)} \cup {Lookup(WrittenMap(h), c) : h \in MapWriters}

UnlockedTimeoutReads ==
  {timeout} \cup {UpdateTimeoutResult(timeout, hd[h].arg).timeout : h \in TimeoutWriters}

(***************************************************************************)
(* schedulePeriodicUpdates                                                 *)
(***************************************************************************)
\* lines 136-170: the job is registered with the timeout read at line 137
\* and the cron is started
SchedStart ==
  /\ ~crashed
  /\ sched.pc = "init"
  /\ \E d \in UnlockedTimeoutReads :
       sched' = [pc |-> "running", period |-> EveryPeriod(d)]
  /\ UNCHANGED <<feedURLs, timeout, mu, hd, tk, crashed>>

\* every order in which the keys of a map can be ranged over
Orders(S) == {s \in [1..Cardinality(S) -> S] : \A i, k \in DOMAIN s : i # k => s[i] # s[k]}

\* line 138: the timer fires, cron starts the job in a goroutine of its own
\* (whether or not an earlier run has ended) and the job takes the read
\* lock.  Goroutine t runs the t-th firing.
TickLock(t) ==
  /\ ~crashed
  /\ sched.pc = "running"
  /\ tk[t].pc = "idle"
  /\ \A s \in 1..(t - 1) : tk[s].pc # "idle"
  /\ mu.writer = None
  /\ mu' = [mu EXCEPT !.readers = @ \cup {t}]
  /\ tk' = [tk EXCEPT ![t] = [IdleTk EXCEPT !.pc = "snap"]]
  /\ UNCHANGED <<feedURLs, timeout, hd, sched, crashed>>

\* the job keeping the read lock after its snapshot
TickSnapshotMutHoldLock(t) ==
  /\ ~crashed
  /\ tk[t].pc = "snap"
  /\ \E order \in Orders(DOMAIN feedURLs) :
       tk' = [tk EXCEPT ![t] = [@ EXCEPT !.pc = "loop", !.channels = order, !.i = 1]]
  /\ UNCHANGED <<feedURLs, timeout, mu, hd, sched, crashed>>

\* lines 139-143: the channel identifiers are copied and the lock released
TickSnapshot(t) ==
  /\ ~crashed
  /\ tk[t].pc = "snap"
  /\ \E order \in Orders(DOMAIN feedURLs) :
       tk' = [tk EXCEPT ![t] = [@ EXCEPT !.pc = "loop", !.channels = order, !.i = 1]]
  /\ mu' = [mu EXCEPT !.readers = @ \ {t}]
  /\ UNCHANGED <<feedURLs, timeout, hd, sched, crashed>>

\* lines 145-146 and 84: the next channel's list is read, without the lock
FetchRead(t) ==
  /\ ~crashed
  /\ tk[t].pc = "loop"
  /\ tk[t].i <= Len(tk[t].channels)
  /\ \E list \in UnlockedListReads(tk[t].channels[tk[t].i]) :
       tk' = [tk EXCEPT ![t] = [@ EXCEPT !.pc = "fetch", !.feedUrlList = list, !.j = 1,
                                         !.fetched = <<>>, !.item = None]]
  /\ UNCHANGED <<feedURLs, timeout, mu, hd, sched, crashed>>

\* line 84 read while a writer is inside the map: the runtime's fatal error
FetchReadFatal(t) ==
  /\ ~crashed
  /\ tk[t].pc = "loop"
  /\ tk[t].i <= Len(tk[t].channels)
  /\ MapWriters # {}
  /\ crashed' = TRUE
  /\ tk' = [tk EXCEPT ![t].pc = "fatal"]
  /\ UNCHANGED <<feedURLs, timeout, mu, hd, sched>>

\* fetchRSS returning the feed's last item instead of its first
FetchOutcomeMutLastItem(t, err, items) ==
  LET tried == Append(t.fetched,
                      [url |-> t.feedUrlList[t.j], err |-> err, items |-> items])
  IN  IF err \/ Len(items) = 0
        THEN [t EXCEPT !.fetched = tried, !.j = t.j + 1]
        ELSE [t EXCEPT !.fetched = tried, !.item = items[Len(items)], !.pc = "post",
                       !.log = Append(t.log, [ch |-> t.channels[t.i],
                                              res |-> items[Len(items)]])]

\* fetchRSS leaving the loop (break for continue) at the first URL that fails
FetchOutcomeMutBreak(t, err, items) ==
  LET tried == Append(t.fetched,
                      [url |-> t.feedUrlList[t.j], err |-> err, items |-> items])
  IN  IF err \/ Len(items) = 0
        THEN [t EXCEPT !.fetched = tried, !.j = Len(t.feedUrlList) + 1]
        ELSE [t EXCEPT !.fetched = tried, !.item = items[1], !.pc = "post",
                       !.log = Append(t.log, [ch |-> t.channels[t.i], res |-> items[1]])]

\* what fetchRSS does with the outcome of ParseURL for the URL at j
\* (lines 86-107); t is the job's record
FetchOutcome(t, err, items) ==
  LET tried == Append(t.fetched,
                      [url |-> t.feedUrlList[t.j], err |-> err, items |-> items])
  IN  IF err \/ Len(items) = 0
        THEN [t EXCEPT !.fetched = tried, !.j = t.j + 1]
        ELSE [t EXCEPT !.fetched = tried, !.item = items[1], !.pc = "post",
                       !.log = Append(t.log, [ch |-> t.channels[t.i], res |-> items[1]])]

\* lines 85-107: one iteration of the loop over the channel's URLs
FetchURL(t) ==
  /\ ~crashed
  /\ tk[t].pc = "fetch"
  /\ tk[t].j <= Len(tk[t].feedUrlList)
  /\ \/ tk' = [tk EXCEPT ![t] = FetchOutcome(tk[t], TRUE, <<>>)]
     \/ \E items \in FeedItems : tk' = [tk EXCEPT ![t] = FetchOutcome(tk[t], FALSE, items)]
  /\ UNCHANGED <<feedURLs, timeout, mu, hd, sched, crashed>>

\* lines 109 and 147-153: no URL gave an item; the error is logged and
\* the job goes on to the next channel
FetchNone(t) ==
  /\ ~crashed
  /\ tk[t].pc = "fetch"
  /\ tk[t].j > Len(tk[t].feedUrlList)
  /\ tk' = [tk EXCEPT ![t] =
              [@ EXCEPT !.pc = "loop", !.i = tk[t].i + 1,
                        !.log = Append(tk[t].log, [ch |-> tk[t].channels[tk[t].i],
                                                   res |-> "NoItemsFound"])]]
  /\ UNCHANGED <<feedURLs, timeout, mu, hd, sched, crashed>>

\* the job leaving out an item that a firing has already sent to the channel
PostTargetsMutDedup(t) ==
  IF /\ t.item # None
     /\ ~\E s \in Ticks : \E k \in DOMAIN tk[s].posts :
            tk[s].posts[k].ch = t.channels[t.i] /\ tk[s].posts[k].item = t.item
    THEN <<t.channels[t.i]>> ELSE <<>>

\* the job sending to the first channel of the snapshot
PostTargetsMutFirst(t) == IF t.item # None THEN <<t.channels[1]>> ELSE <<>>

\* the channels the job sends to after a fetch that returned item
PostTargets(t) == IF t.item # None THEN <<t.channels[t.i]>> ELSE <<>>

\* the job given up at the first send that fails
PostOutcomeMutAbort(t, ok) ==
  [t EXCEPT !.pc = IF ok THEN "loop" ELSE "done", !.i = t.i + 1,
            !.posts = t.posts \o
              [k \in 1..Len(PostTargets(t)) |->
                 [ch |-> PostTargets(t)[k], item |-> t.item, ok |-> ok]]]

\* postToDiscord (lines 112-132) called at line 157: ok tells whether
\* ChannelMessageSend succeeded; a failure is logged and nothing else
PostOutcome(t, ok) ==
  [t EXCEPT !.pc = "loop", !.i = t.i + 1,
            !.posts = t.posts \o
              [k \in 1..Len(PostTargets(t)) |->
                 [ch |-> PostTargets(t)[k], item |-> t.item, ok |-> ok]]]

\* lines 155-158: the notification is sent and the job goes on to the next
\* channel
Post(t) ==
  /\ ~crashed
  /\ tk[t].pc = "post"
  /\ \E ok \in BOOLEAN : tk' = [tk EXCEPT ![t] = PostOutcome(tk[t], ok)]
  /\ UNCHANGED <<feedURLs, timeout, mu, hd, sched, crashed>>

\* line 159: the range over channels is exhausted
TickFinish(t) ==
  /\ ~crashed
  /\ tk[t].pc = "loop"
  /\ tk[t].i > Len(tk[t].channels)
  /\ tk' = [tk EXCEPT ![t].pc = "done"]
  /\ UNCHANGED <<feedURLs, timeout, mu, hd, sched, crashed>>

\* line 160: the job returns and its goroutine ends
TickReturn(t) ==
  /\ ~crashed
  /\ tk[t].pc = "done"
  /\ tk' = [tk EXCEPT ![t] = [IdleTk EXCEPT !.pc = "exited"]]
  /\ UNCHANGED <<feedURLs, timeout, mu, hd, sched, crashed>>

(***************************************************************************)
(* Specifications                                                          *)
(*   SpecCmd   every command, handled one at a time                        *)
(*   SpecConc  add commands handled by two goroutines at once              *)
(*   SpecTick  the scheduler and the first run of its job beside a handler  *)
(*             that changes the registry                                   *)
(*   SpecOverlap  firings of the job that may run at the same time, beside *)
(*             a handler that adds one URL to one channel                  *)
(*   SpecSched the cron and its job over a registry without channels,      *)
(*             beside a handler of list and update_timeout commands        *)
(*   SpecStore FeedStore's methods called one after the other by one       *)
(*             goroutine, which keeps the call and the list it found       *)
(***************************************************************************)
AddMessages == [verb : {"add"}, arg : URLs]
RegistryMessages == [verb : {"add", "remove"}, arg : URLs]

AddStep(h) ==
  \/ ExistsCheck(h)
  \/ Lock(h)
  \/ AddWrite(h)
  \/ AddSend(h)
  \/ Return(h)

RemoveStep(h) ==
  \/ RemoveWrite(h)
  \/ RemoveSend(h)

OtherStep(h) ==
  \/ ListRead(h)
  \/ ListSend(h)
  \/ UtWrite(h)
  \/ UtSend(h)

\* the steps of the job run by goroutine t
Job(t) ==
  \/ TickLock(t)
  \/ TickSnapshot(t)
  \/ FetchRead(t)
  \/ FetchReadFatal(t)
  \/ FetchURL(t)
  \/ FetchNone(t)
  \/ Post(t)
  \/ TickFinish(t)
  \/ TickReturn(t)

NextCmd ==
  \/ \E c \in Channels, m \in Messages : Receive("h1", c, m)
  \/ AddStep("h1")
  \/ RemoveStep("h1")
  \/ OtherStep("h1")

SpecCmd == Init /\ [][NextCmd]_vars

NextConc ==
  \/ \E h \in Handlers, c \in Channels, m \in AddMessages : Receive(h, c, m)
  \/ \E h \in Handlers : AddStep(h)

SpecConc == Init /\ [][NextConc]_vars

NextTick ==
  \/ \E c \in Channels, m \in RegistryMessages : Receive("h1", c, m)
  \/ AddStep("h1")
  \/ RemoveStep("h1")
  \/ SchedStart
  \/ Job(1)

SpecTick == Init /\ [][NextTick]_vars

OverlapMessages == [verb : {"add"}, arg : {A}]

NextOverlap ==
  \/ \E m \in OverlapMessages : Receive("h1", "c1", m)
  \/ AddStep("h1")
  \/ SchedStart
  \/ \E t \in Ticks : Job(t)

SpecOverlap == Init /\ [][NextOverlap]_vars

SchedMessages == {m \in Messages : m.verb \in {"list", "update_timeout"}}

NextSched ==
  \/ \E c \in Channels, m \in SchedMessages : Receive("h1", c, m)
  \/ Lock("h1")
  \/ OtherStep("h1")
  \/ Return("h1")
  \/ SchedStart
  \/ \E t \in Ticks : \/ TickLock(t)
                      \/ TickSnapshot(t)
                      \/ TickFinish(t)
                      \/ TickReturn(t)

SpecSched == Init /\ [][NextSched]_vars

\* the caller's record of a call of method f on channel c
Called(f, c, u) == [IdleHd EXCEPT !.pc = "called", !.verb = f, !.ch = c, !.arg = u,
                                  !.local = Lookup(feedURLs, c)]

\* feedStore.AddFeed(c, u), lines 29-35
StoreAdd(c, u) ==
  /\ mu.writer = None /\ mu.readers = {}
  /\ Len(Lookup(feedURLs, c)) < MaxLen
  /\ feedURLs' = AddFeedResult(feedURLs, c, u)
  /\ hd' = [hd EXCEPT !["h1"] = Called("AddFeed", c, u)]
  /\ UNCHANGED <<timeout, mu, sched, tk, crashed>>

\* feedStore.RemoveFeed(c, u), lines 37-48
StoreRemove(c, u) ==
  /\ mu.writer = None /\ mu.readers = {}
  /\ feedURLs' = RemoveFeedResult(feedURLs, c, u)
  /\ hd' = [hd EXCEPT !["h1"] = Called("RemoveFeed", c, u)]
  /\ UNCHANGED <<timeout, mu, sched, tk, crashed>>

\* feedStore.UpdateTimeout(s), lines 60-69
StoreUpdateTimeout(s) ==
  /\ mu.writer = None /\ mu.readers = {}
  /\ timeout' = UpdateTimeoutResult(timeout, s).timeout
  /\ hd' = [hd EXCEPT !["h1"] = [IdleHd EXCEPT !.pc = "called", !.verb = "UpdateTimeout",
                                                !.arg = s]]
  /\ UNCHANGED <<feedURLs, mu, sched, tk, crashed>>

NextStore ==
  \/ \E c \in Channels, u \in URLs : StoreAdd(c, u)
  \/ \E c \in Channels, u \in URLs : StoreRemove(c, u)
  \/ \E s \in DurationInputs : StoreUpdateTimeout(s)

SpecStore == Init /\ [][NextStore]_vars

(***************************************************************************)
(* Properties                                                              *)
(***************************************************************************)
Count(s, u) == Cardinality({i \in 1..Len(s) : s[i] = u})

Last(s) == s[Len(s)]

\* C1: between commands handled one at a time every URL is at most once in
\* every channel's list, and when an add command with a URL has been
\* handled the channel's list holds that URL exactly once.
C1_AtMostOnce ==
  hd["h1"].pc \in {"idle", "done"} =>
    /\ \A c \in Channels, u \in URLs : Count(Lookup(feedURLs, c), u) <= 1
    /\ hd["h1"].verb = "add" /\ hd["h1"].arg # NoArg
         => Count(Lookup(feedURLs, hd["h1"].ch), hd["h1"].arg) = 1

\* C2: when the handlers that were adding concurrently have all finished,
\* every URL whose add was handled is in its channel's list (none lost),
\* and exactly once.
C2_ConcurrentAdds ==
  (\A h \in Handlers : hd[h].pc \in {"idle", "done"}) =>
    \A h \in Handlers :
      hd[h].pc = "done" /\ hd[h].verb = "add" /\ hd[h].arg # NoArg
        => Count(Lookup(feedURLs, hd[h].ch), hd[h].arg) = 1

\* C3: when a remove command with a URL has been handled, the channel's
\* list no longer contains that URL.
C3_RemoveRemoves ==
  \A h \in Handlers :
    hd[h].pc = "done" /\ hd[h].verb = "remove" /\ hd[h].arg # NoArg
      => ~FeedExists(feedURLs, hd[h].ch, hd[h].arg)

\* C4: RemoveFeed applied for a URL that is not in the channel's list
\* (also for a channel with no entry) leaves what ListFeed and FeedExists
\* give for every channel, and the timeout, as they were, and the process
\* keeps running.
C4_RemoveAbsentNoOp ==
  [][\A h \in Handlers :
       /\ hd[h].pc = "remove_write" /\ hd'[h].pc = "remove_send"
       /\ ~FeedExists(feedURLs, hd[h].ch, hd[h].arg)
       => /\ \A c \in Channels :
               /\ ListFeed(feedURLs', c) = ListFeed(feedURLs, c)
               /\ \A u \in URLs : FeedExists(feedURLs', c, u) = FeedExists(feedURLs, c, u)
          /\ timeout' = timeout
          /\ ~crashed']_vars

\* RemoveFeed has run for URL a on a channel whose list is [b, b]
C4_Witness ==
  \E h \in Handlers :
    /\ hd[h].pc = "remove_send" /\ hd[h].arg = A
    /\ Lookup(feedURLs, hd[h].ch) = <<B, B>>

\* C5: UpdateTimeout with "10m", "1h" or "0" returns no error and leaves the
\* timeout at 600, 3600 or 0 seconds; with "not" or "10" it returns an error
\* and leaves the timeout and every channel's list as they were.
C5_UpdateTimeout ==
  [][\A h \in Handlers :
       hd[h].pc = "ut_write" /\ hd'[h].pc = "ut_send"
       => /\ hd[h].arg = <<"1", "0", "m">> => timeout' = 600 /\ hd'[h].local = <<>>
          /\ hd[h].arg = <<"1", "h">> => timeout' = 3600 /\ hd'[h].local = <<>>
          /\ hd[h].arg = <<"0">> => timeout' = 0 /\ hd'[h].local = <<>>
          /\ hd[h].arg \in {<<"n", "o", "t">>, <<"1", "0">>}
               => /\ timeout' = timeout
                  /\ feedURLs' = feedURLs
                  /\ hd'[h].local = <<"err">>]_vars

\* an unparseable string has been refused while the timeout was 10 minutes
C5_Witness ==
  \E h \in Handlers :
    /\ hd[h].pc = "ut_send" /\ hd[h].local = <<"err">>
    /\ hd[h].arg = <<"n", "o", "t">>
    /\ timeout = 600

Failed(e) == e.err \/ Len(e.items) = 0

\* C6: fetchRSS tries the URLs of the list it read in the list's order; all
\* the URLs tried before the current one failed or were empty; when it
\* returns an item, that item is the first item of the last URL tried, and
\* no later URL has been tried.
C6_FirstSuccess ==
  \A t \in Ticks :
  /\ Len(tk[t].fetched) <= Len(tk[t].feedUrlList)
  /\ \A k \in 1..Len(tk[t].fetched) :
       /\ tk[t].fetched[k].url = tk[t].feedUrlList[k]
       /\ k < Len(tk[t].fetched) => Failed(tk[t].fetched[k])
  /\ tk[t].pc = "fetch" =>
       /\ Len(tk[t].fetched) = tk[t].j - 1
       /\ \A k \in 1..Len(tk[t].fetched) : Failed(tk[t].fetched[k])
  /\ tk[t].pc = "post" =>
       /\ tk[t].fetched # <<>>
       /\ ~Failed(Last(tk[t].fetched))
       /\ tk[t].item = Head(Last(tk[t].fetched).items)
       /\ Last(tk[t].log) = [ch |-> tk[t].channels[tk[t].i], res |-> tk[t].item]

\* for the list [a, a, b, b] both fetches of a failed and b gave an item
C6_Witness ==
  \E t \in Ticks :
  /\ tk[t].pc = "post"
  /\ tk[t].feedUrlList = <<A, A, B, B>>
  /\ Len(tk[t].fetched) = 3
  /\ tk[t].item \in Items

\* C7: fetchRSS returns the no-items error exactly when every URL of the
\* list was tried and each fetch failed or was empty; it returns no item
\* then, and an item otherwise.
C7_NoItemsFound ==
  \A t \in Ticks :
  /\ tk[t].pc = "loop" /\ tk[t].log # <<>> =>
       /\ Last(tk[t].log).res = "NoItemsFound"
            <=> /\ Len(tk[t].fetched) = Len(tk[t].feedUrlList)
                /\ \A k \in 1..Len(tk[t].fetched) : Failed(tk[t].fetched[k])
       /\ Last(tk[t].log).res = "NoItemsFound" <=> tk[t].item = None
       /\ Last(tk[t].log).res # "NoItemsFound"
            => \E k \in 1..Len(tk[t].fetched) :
                 ~Failed(tk[t].fetched[k]) /\ Last(tk[t].log).res = tk[t].fetched[k].items[1]
  /\ tk[t].pc = "post" => Last(tk[t].log).res # "NoItemsFound" /\ tk[t].item # None

\* all four fetches of the list [a, a, b, b] failed: the no-items error
C7_Witness ==
  \E t \in Ticks :
  /\ tk[t].pc = "loop" /\ tk[t].log # <<>>
  /\ Last(tk[t].log).res = "NoItemsFound"
  /\ tk[t].feedUrlList = <<A, A, B, B>>
  /\ Len(tk[t].fetched) = 4

\* the notifications sent, without the outcome of each send
Sent(posts) == [k \in 1..Len(posts) |-> [ch |-> posts[k].ch, item |-> posts[k].item]]

\* the notifications owed for the fetch results logged so far
RECURSIVE Owed(_)
Owed(log) ==
  IF log = <<>> THEN <<>>
  ELSE Owed(SubSeq(log, 1, Len(log) - 1)) \o
         (IF Last(log).res = "NoItemsFound" THEN <<>>
          ELSE <<[ch |-> Last(log).ch, item |-> Last(log).res]>>)

\* C8: within a tick the channels of the snapshot are processed in turn,
\* whatever each fetch gives; one notification has been sent to each
\* processed channel whose fetch gave an item and none to the others; at
\* the end of the tick every snapshot channel has been processed.
C8_TickDispatch ==
  \A t \in Ticks :
  /\ Len(tk[t].log) <= Len(tk[t].channels)
  /\ \A k \in 1..Len(tk[t].log) : tk[t].log[k].ch = tk[t].channels[k]
  /\ tk[t].pc = "post" => Sent(tk[t].posts) = Owed(SubSeq(tk[t].log, 1, Len(tk[t].log) - 1))
  /\ tk[t].pc # "post" => Sent(tk[t].posts) = Owed(tk[t].log)
  /\ tk[t].pc = "loop" => Len(tk[t].log) = tk[t].i - 1
  /\ tk[t].pc = "done" => Len(tk[t].log) = Len(tk[t].channels)

\* a tick over two channels has ended: the first fetch failed, the second
\* gave X, and the one notification went to the second channel
C8_Witness ==
  \E t \in Ticks :
  /\ tk[t].pc = "done"
  /\ Len(tk[t].channels) = 2
  /\ tk[t].log[1].res = "NoItemsFound"
  /\ tk[t].log[2].res = "X"
  /\ Sent(tk[t].posts) = <<[ch |-> tk[t].channels[2], item |-> "X"]>>

\* C9: the job's read of a channel's list and the scheduler's read of the
\* timeout go through the lock, so neither is ever made while a writer
\* holds the lock.
C9_ReadsUnderLock ==
  [][(\/ \E t \in Ticks : tk[t].pc = "loop" /\ tk'[t].pc \in {"fetch", "fatal"}
      \/ sched.pc = "init" /\ sched'.pc = "running")
     => mu.writer = None]_vars

\* C10: a list command without a further argument sends ListFeed's text
\* for the channel, changes nothing in the registry and does not end the
\* process.
C10_ListCommand ==
  \A h \in Handlers :
    hd[h].verb = "list" /\ hd[h].arg = NoArg =>
      /\ ~crashed
      /\ hd[h].pc = "done" => hd[h].reply = ListFeed(feedURLs, hd[h].ch)

\* the texts sent for a command that lacks its verb or its argument
UsageTexts ==
  { Line("Usage: /rss <add|remove|list|update_timeout> [url|duration]"),
    Line("Please provide a feed URL to add"),
    Line("Please provide a feed URL to remove"),
    Line("Usage: /rss update_timeout <10m|1h|etc>") }

\* C11: a message with no verb, or with add, remove or update_timeout and
\* no argument, is answered with a usage text at once, and handling it
\* changes neither the map nor the timeout.
C11_MissingArgument ==
  [][\A h \in Handlers :
       /\ hd[h].pc = "idle" /\ hd'[h].pc # "idle"
       /\ hd'[h].verb \in {None, "add", "remove", "update_timeout"}
       /\ hd'[h].arg = NoArg
       => /\ hd'[h].pc = "done"
          /\ hd'[h].reply \in UsageTexts
          /\ feedURLs' = feedURLs
          /\ timeout' = timeout
          /\ ~crashed']_vars

\* update_timeout without a duration has been answered with its usage text
\* while a channel has subscriptions and the timeout is 10 minutes
C11_Witness ==
  \E h \in Handlers :
    /\ hd[h].pc = "done" /\ hd[h].verb = "update_timeout" /\ hd[h].arg = NoArg
    /\ hd[h].reply = Line("Usage: /rss update_timeout <10m|1h|etc>")
    /\ timeout = 600
    /\ \E c \in Channels : Lookup(feedURLs, c) # <<>>

\* the channels of a log or of a list of sends, in order
ChannelsOf(s) == [k \in 1..Len(s) |-> s[k].ch]

\* C12: a send that fails is logged and nothing more: the step that makes
\* it adds that one attempt to the job's sends (no retry), moves the job to
\* the next channel of its snapshot and leaves the cron as it was; and a job
\* reaches its end only after it has fetched for every channel of its
\* snapshot, in order, and has sent every item it fetched, whether or not
\* earlier sends failed.
C12_FailedSendGoesOn ==
  [][\A t \in Ticks :
       /\ tk[t].pc = "post" /\ tk'[t].pc # "post"
            => /\ tk'[t].pc = "loop"
               /\ tk'[t].i = tk[t].i + 1
               /\ tk'[t].channels = tk[t].channels
               /\ Len(tk'[t].posts) = Len(tk[t].posts) + 1
               /\ Last(tk'[t].posts).ch = tk[t].channels[tk[t].i]
               /\ sched' = sched /\ sched.pc = "running"
               /\ crashed' = crashed
       /\ tk'[t].pc = "done"
            => /\ ChannelsOf(tk'[t].log) = tk'[t].channels
               /\ Sent(tk'[t].posts) = Owed(tk'[t].log)]_vars

\* a job has ended after a failed send to the first of two channels and a
\* successful send to the second
C12_Witness ==
  \E t \in Ticks :
    /\ tk[t].pc = "done"
    /\ Len(tk[t].channels) = 2
    /\ Len(tk[t].posts) = 2
    /\ ~tk[t].posts[1].ok /\ tk[t].posts[1].ch = tk[t].channels[1]
    /\ tk[t].posts[2].ok /\ tk[t].posts[2].ch = tk[t].channels[2]
    /\ sched.pc = "running" /\ ~crashed

\* C13: once the cron has been started it is never stopped: no command and
\* no failure leads to a state in which the cron has been started and the
\* process that runs it has died.
C13_NeverStopped == sched.pc = "running" => ~crashed

\* C14: the cron's period is made, when the cron is started, from the
\* timeout the registry has at that moment (the value held, or the value a
\* handler inside UpdateTimeout is assigning), and no later step changes
\* it: a successful UpdateTimeout changes the registry's timeout and leaves
\* the period of the running cron as it was.
C14_PeriodReadOnce ==
  [][/\ sched.pc = "init" /\ sched'.pc = "running"
          => sched'.period \in {EveryPeriod(d) : d \in UnlockedTimeoutReads}
     /\ sched.pc = "running" => sched' = sched]_vars

\* the cron runs with the default period, a later update_timeout has set
\* the registry's timeout to ten minutes, and a firing has started since
C14_Witness ==
  /\ sched.pc = "running" /\ sched.period = DefaultTimeout
  /\ timeout = 600
  /\ \E h \in Handlers : hd[h].pc = "done" /\ hd[h].verb = "update_timeout"
  /\ \E t \in Ticks : tk[t].pc # "idle"

\* C15: no goroutine fetches or sends while it holds feedStore.mu: a step
\* of a job that asks a feed for its items or sends a notification is
\* taken by a job that holds no read lock, the job gives up its read lock
\* in the step that ends its snapshot, and a step of a handler that sends
\* a reply is taken by a handler that does not hold the lock.
C15_NoIOUnderLock ==
  [][/\ \A t \in Ticks :
          /\ tk[t].pc \in {"fetch", "post"} /\ tk'[t] # tk[t] => t \notin mu.readers
          /\ tk[t].pc = "snap" /\ tk'[t].pc # "snap" => t \notin mu'.readers
     /\ \A h \in Handlers :
          hd'[h].reply # hd[h].reply /\ hd'[h].reply # <<>>
            => mu.writer # h /\ mu'.writer # h]_vars

\* a job has asked a feed for its items and a handler has sent its reply
\* to an add command
C15_Witness ==
  /\ \E t \in Ticks : /\ tk[t].pc = "post"
                      /\ Len(tk[t].fetched) >= 1
                      /\ t \notin mu.readers
                      /\ mu.writer = None
  /\ \E h \in Handlers : hd[h].reply = Line("Feed added.")

\* C16: a command whose verb is none of add, remove, list and
\* update_timeout is ignored: the handler sends nothing, changes neither
\* the map nor the timeout, and returns.
C16_UnknownVerbIgnored ==
  [][\A h \in Handlers :
       /\ hd[h].pc = "idle" /\ hd'[h].pc # "idle"
       /\ hd'[h].verb \notin {None, "add", "remove", "list", "update_timeout"}
       => /\ hd'[h].pc = "done"
          /\ hd'[h].reply = <<>>
          /\ feedURLs' = feedURLs /\ timeout' = timeout
          /\ ~crashed']_vars

\* an unknown verb with an argument has been handled, with the registry
\* holding a URL and a timeout that is not the default
C16_Witness ==
  /\ \E h \in Handlers : /\ hd[h].pc = "done" /\ hd[h].verb = "bogus"
                         /\ hd[h].arg = A /\ hd[h].reply = <<>>
  /\ timeout = 3600
  /\ \E c \in DOMAIN feedURLs : feedURLs[c] # <<>>

\* the fetch result k of job t has been dealt with (its send, if it owes
\* one, has been attempted)
Dealt(t, k) == k < Len(tk[t].log) \/ tk[t].pc # "post"

\* C17: the job remembers nothing of what earlier firings sent: when the
\* fetch for a channel gives a firing the item that an earlier firing has
\* sent to that channel, the later firing sends it to the channel again.
C17_NoDeduplication ==
  \A s, t \in Ticks :
    s < t =>
      \A k \in DOMAIN tk[t].log :
        /\ tk[t].log[k].res # "NoItemsFound"
        /\ Dealt(t, k)
        /\ \E p \in DOMAIN tk[s].posts :
               Sent(tk[s].posts)[p] = [ch |-> tk[t].log[k].ch, item |-> tk[t].log[k].res]
        => \E q \in DOMAIN tk[t].posts :
               Sent(tk[t].posts)[q] = [ch |-> tk[t].log[k].ch, item |-> tk[t].log[k].res]

\* two firings, one after the other, have fetched item X for channel c1
\* and each has sent it there
C17_Witness ==
  /\ tk[1].pc = "done" /\ tk[2].pc = "done"
  /\ tk[1].log = <<[ch |-> "c1", res |-> "X"]>>
  /\ tk[2].log = <<[ch |-> "c1", res |-> "X"]>>
  /\ Sent(tk[1].posts) = <<[ch |-> "c1", item |-> "X"]>>
  /\ Sent(tk[2].posts) = <<[ch |-> "c1", item |-> "X"]>>

\* the goroutines that are inside the job's body
Executing == {t \in Ticks : tk[t].pc \in {"snap", "loop", "fetch", "post", "done"}}

\* C18: firings do not overlap: at most one goroutine is inside the job's
\* body at any time.
C18_NoOverlap == Cardinality(Executing) <= 1

\* C19: AddFeed(c, u) leaves c's list as it was with u added at the end;
\* RemoveFeed(c, u) leaves c's list as it was without the entries equal to
\* u, the others in the order they had; both leave the list of every other
\* channel, the set of other channels present and the timeout as they
\* were.
C19_AddRemoveFrame ==
  [][LET call == hd'["h1"]
     IN  call.pc = "called" /\ call.verb \in {"AddFeed", "RemoveFeed"}
         => /\ call.local = Lookup(feedURLs, call.ch)
            /\ call.verb = "AddFeed"
                 => Lookup(feedURLs', call.ch) = call.local \o <<call.arg>>
            /\ call.verb = "RemoveFeed"
                 => Lookup(feedURLs', call.ch)
                      = SelectSeq(call.local, LAMBDA x : x # call.arg)
            /\ \A d \in Channels \ {call.ch} :
                 /\ d \in DOMAIN feedURLs' <=> d \in DOMAIN feedURLs
                 /\ Lookup(feedURLs', d) = Lookup(feedURLs, d)
            /\ timeout' = timeout]_vars

\* RemoveFeed has taken both entries A out of the list A, B, B, A and left
\* B, B, while the other channel holds a list and the timeout is ten
\* minutes
C19_Witness ==
  /\ hd["h1"].pc = "called" /\ hd["h1"].verb = "RemoveFeed"
  /\ hd["h1"].arg = A /\ hd["h1"].local = <<A, B, B, A>>
  /\ Lookup(feedURLs, hd["h1"].ch) = <<B, B>>
  /\ \E d \in DOMAIN feedURLs : d # hd["h1"].ch /\ feedURLs[d] = <<B, A>>
  /\ timeout = 600

\* the elements of a sequence
Range(s) == {s[k] : k \in DOMAIN s}

\* C20: no step takes a key out of the map, and AddFeed and RemoveFeed
\* leave the key of their channel in it (RemoveFeed with an empty list when
\* the channel was unknown); the snapshot of a job holds every key of the
\* map; and for a channel whose list the job read as empty, fetchRSS asks
\* no feed, the job logs NoItemsFound for the channel, sends nothing and
\* goes on.
C20_KeysStay ==
  [][/\ DOMAIN feedURLs \subseteq DOMAIN feedURLs'
     /\ \A h \in Handlers :
          hd[h].pc \in {"add1_write", "add2_write", "remove_write"} /\ hd'[h].pc # hd[h].pc
            => /\ hd[h].ch \in DOMAIN feedURLs'
               /\ hd[h].pc = "remove_write" /\ hd[h].ch \notin DOMAIN feedURLs
                    => feedURLs'[hd[h].ch] = <<>>
     /\ \A t \in Ticks :
          /\ tk[t].pc = "snap" /\ tk'[t].pc # "snap"
               => Range(tk'[t].channels) = DOMAIN feedURLs
          /\ tk[t].pc = "fetch" /\ tk[t].feedUrlList = <<>> /\ tk'[t] # tk[t]
               => /\ tk'[t].pc = "loop"
                  /\ tk'[t].i = tk[t].i + 1
                  /\ tk'[t].fetched = <<>>
                  /\ tk'[t].log = Append(tk[t].log, [ch |-> tk[t].channels[tk[t].i],
                                                     res |-> "NoItemsFound"])
                  /\ tk'[t].posts = tk[t].posts]_vars

\* a remove command for an unknown channel has left the channel in the map
\* with an empty list, and a job that started later has the channel in its
\* snapshot, found no URL to fetch, logged NoItemsFound and sent nothing
C20_Witness ==
  \E t \in Ticks, c \in Channels :
    /\ c \in DOMAIN feedURLs /\ feedURLs[c] = <<>>
    /\ tk[t].pc = "done"
    /\ tk[t].channels = <<c>>
    /\ tk[t].log = <<[ch |-> c, res |-> "NoItemsFound"]>>
    /\ tk[t].fetched = <<>>
    /\ tk[t].posts = <<>>
    /\ hd["h1"] = IdleHd

====
